---- MODULE Spec2Model ----
(***************************************************************************)
(* fdp2bin: conversion of an AS ".p" object file into a flat ROM image.    *)
(* The model follows fdp2bin.cc: main() opens the files and calls          *)
(* buildRom(), whose loop decodes one segment header, then the start and   *)
(* length fields, then places the payload (Kosinski-compressed for the Z80 *)
(* driver segment, verbatim otherwise).  main() then appends the share     *)
(* file line or unlinks the ROM.                                           *)
(*                                                                         *)
(* The input file is revealed as it is read: every step draws the bytes    *)
(* the file holds at the read position; fewer bytes than the step asks for *)
(* means the file ends there (the stream goes bad and stays bad).          *)
(***************************************************************************)
EXTENDS Integers, Sequences, FiniteSets, TLC

\* ------------------------------------------------------------------ bounds
\* Loop iterations of buildRom that decode a header and continue.
MaxRecs == 2
\* Largest low byte of a startAddress field drawn for a record.
MaxStart == 3
\* Largest length field drawn for a record.
MaxLen == 1

\* ------------------------------------------------------- program constants
Magic1 == 137
Magic2 == 20
EndHeader == 0
EntryHeader == 128
ExtHeader == 129
Z80Cpu == 81
scratchSize == 4096
EntrySkip == 3
PatchLeeway == 3
\* istream::get() at end of input gives EOF, which Read1 narrows to a byte.
EofByte == 255
\* A cell of scratch[] that was never written.
Uninit == -1

VARIABLES
    pc,                     \* position in main()/buildRom()
    shareFileName,          \* main: TRUE once a third argument is seen
    compressedLength,       \* main's compressedLength, passed by reference
    ret,                    \* buildRom's return value
    romFile,                \* TRUE while the output file exists on disk
    shareFile,              \* lines appended to the share file
    inGood,                 \* istream in: good()
    inPos,                  \* istream in: bytes consumed since the loop head
    image, outPos,          \* ostream out: file content, tellp()
    cpuType, segmentType, granularity,
    start, lastStart, length, lastLength,
    scratch, lastSegmentCompressed,
    diag,                   \* what buildRom's last step printed
    consumed,               \* history: the bytes the last step took from in
    truncated,              \* history: the file ended inside a header or record
    highWater,              \* history: highest offset + length ever written
    recLimit,               \* the number of segment headers the run may decode
    nRecs,                  \* history: segment headers decoded so far
    nCompressed             \* history: records taken by the compressed path

mainVars == <<shareFileName, compressedLength, ret, romFile, shareFile>>
outVars == <<image, outPos>>
hdrVars == <<cpuType, segmentType, granularity>>
segVars == <<start, lastStart, length, lastLength, lastSegmentCompressed>>
vars == <<pc, mainVars, inGood, inPos, outVars, hdrVars, segVars, scratch, diag,
          consumed, truncated, nRecs, nCompressed, highWater, recLimit>>

\* ------------------------------------------------------------ input domains
\* Payloads are runs of consecutive byte values from one of two bases.
PayloadBases == {160, 176}
Payloads(n) == UNION {{[i \in 1..k |-> b + i] : b \in PayloadBases} : k \in 0..n}
GarbageBytes == {0, 204}

Prefixes(s) == {SubSeq(s, 1, k) : k \in 0..Len(s)}

MagicInputs ==
    UNION {Prefixes(<<a, b>>) : a \in {Magic1, 0}, b \in {Magic2, 0}}

\* What the file may hold at a header position: nothing, the end marker, a
\* legacy header (68000 or Z80), an entry point, an extended header, a byte
\* above 0x81; and files that end inside an entry point or extended header.
HeaderInputs ==
    {<<>>, <<EndHeader>>, <<1>>, <<Z80Cpu>>, <<ExtHeader + 1>>}
    \cup {<<EntryHeader, 0, 0, 0>>, <<EntryHeader, 0>>}
    \cup {<<ExtHeader, c, 0, 1>> : c \in {1, Z80Cpu}}
    \cup {<<ExtHeader, 1, 0, 2>>, <<ExtHeader, 1>>}

\* Start fields: 0..MaxStart, and two with the sign bit set.
StartFields ==
    {<<b0, 0, 0, 0>> : b0 \in 0..MaxStart} \cup {<<0, 0, 0, 128>>, <<1, 0, 0, 255>>}
LengthFields == {<<l0, 0>> : l0 \in 0..MaxLen}
\* Complete start+length fields, and files that end inside the start field.
FieldInputs ==
    {s \o l : s \in StartFields, l \in LengthFields}
    \cup {<<>>, <<1, 0>>}

\* ------------------------------------------------------------------ readers
\* Read1(in) at the i-th byte the step reads.
Read1(bytes, i) == IF i <= Len(bytes) THEN bytes[i] ELSE EofByte

LERead2(bytes, i) == Read1(bytes, i) + 256 * Read1(bytes, i + 1)

\* The 32-bit field taken as signed: a top byte of 128 or more carries the
\* sign (top - 256 is the two's complement value of that byte).
LERead4(bytes, i) ==
    LET low == Read1(bytes, i) + 256 * Read1(bytes, i + 1)
               + 65536 * Read1(bytes, i + 2)
        top == Read1(bytes, i + 3)
    IN IF top >= 128 THEN (top - 256) * 16777216 + low
       ELSE top * 16777216 + low

\* The stream after a step that asked for n bytes and found bytes.
ReadFrom(bytes, n) ==
    /\ inGood \/ bytes = <<>>
    /\ Len(bytes) <= n
    /\ inGood' = (inGood /\ Len(bytes) = n)
    /\ truncated' = (truncated \/ Len(bytes) < n)
    /\ consumed' = bytes

\* ---------------------------------------------------------------- the codec
\* kosinski::encode: deterministic, lossless, self-delimiting.
KosEncode(buf) == <<Len(buf)>> \o buf

\* ------------------------------------------------------------- output file
Max(a, b) == IF a >= b THEN a ELSE b

\* Mutant: the file ends where the last write ended.
WriteAt_Truncate(img, pos, bytes) ==
    [i \in 1..(pos + Len(bytes)) |->
        IF i > pos THEN bytes[i - pos]
        ELSE IF i <= Len(img) THEN img[i]
        ELSE 0]

\* out.write(bytes) with the put position at pos; a hole reads as zero.
WriteAt(img, pos, bytes) ==
    [i \in 1..Max(Len(img), pos + Len(bytes)) |->
        IF i > pos /\ i <= pos + Len(bytes) THEN bytes[i - pos]
        ELSE IF i <= Len(img) THEN img[i]
        ELSE 0]

\* ----------------------------------------------------------------- messages
\* "#define comp_z80_size 0x" << hex << uppercase << n
HexDigit(d) ==
    <<"0", "1", "2", "3", "4", "5", "6", "7", "8", "9",
      "A", "B", "C", "D", "E", "F">>[d + 1]

RECURSIVE HexDigits(_)
HexDigits(n) ==
    IF n < 16 THEN <<HexDigit(n)>>
    ELSE Append(HexDigits(n \div 16), HexDigit(n % 16))

ShareLine(n) == [text |-> "#define comp_z80_size 0x", hex |-> HexDigits(n)]

\* --------------------------------------------------------------------- Init
\* The state at the entry of main(), for a run that decodes at most limit
\* segment headers.
InitWith(limit) ==
    /\ pc = "main"
    /\ shareFileName = FALSE
    /\ compressedLength = 0
    /\ ret = FALSE
    /\ romFile = FALSE
    /\ shareFile = <<>>
    /\ inGood = TRUE
    /\ inPos = 0
    /\ image = <<>>
    /\ outPos = 0
    /\ cpuType = 0
    /\ segmentType = 0
    /\ granularity = 0
    /\ start = 0
    /\ lastStart = 0
    /\ length = 0
    /\ lastLength = 0
    /\ scratch = [i \in 1..MaxLen |-> Uninit]
    /\ lastSegmentCompressed = FALSE
    /\ diag = <<>>
    /\ consumed = <<>>
    /\ truncated = FALSE
    /\ nRecs = 0
    /\ nCompressed = 0
    /\ highWater = 0
    /\ recLimit = limit

Init == InitWith(MaxRecs)

\* --------------------------------------------------------------- main, open
\* ifstream fin / ofstream fout both good: buildRom is called.
MainOpen ==
    /\ pc = "main"
    /\ UNCHANGED <<highWater, recLimit>>
    /\ pc' = "magic"
    /\ romFile' = TRUE
    /\ UNCHANGED <<shareFileName, compressedLength, ret, shareFile, inGood, inPos,
                   outVars, hdrVars, segVars, scratch, diag, consumed, truncated,
                   nRecs, nCompressed>>

\* fin or fout not good: an error is printed and nothing is converted.
MainOpenFail(finGood) ==
    /\ pc = "main"
    /\ UNCHANGED <<highWater, recLimit>>
    /\ pc' = "exit"
    /\ diag' = IF finGood THEN <<"FailedToAccessFile">> ELSE <<"FailedToLoadFile">>
    /\ UNCHANGED <<mainVars, inGood, inPos, outVars, hdrVars, segVars, scratch,
                   consumed, truncated, nRecs, nCompressed>>

\* ------------------------------------------------------- buildRom, the magic
\* Mutant: a wrong magic byte ends buildRom with false.
ReadMagic_Fatal(bytes) ==
    /\ pc = "magic"
    /\ UNCHANGED <<highWater, recLimit>>
    /\ ReadFrom(bytes, 2)
    /\ inPos' = Len(bytes)
    /\ diag' = (IF Read1(bytes, 1) # Magic1 THEN <<"WarnFirstByte">> ELSE <<>>)
               \o (IF Read1(bytes, 2) # Magic2 THEN <<"WarnSecondByte">> ELSE <<>>)
    /\ pc' = IF diag' = <<>> THEN "header" ELSE "return"
    /\ UNCHANGED <<mainVars, outVars, hdrVars, segVars, scratch, nRecs, nCompressed>>

ReadMagic(bytes) ==
    /\ pc = "magic"
    /\ UNCHANGED <<highWater, recLimit>>
    /\ ReadFrom(bytes, 2)
    /\ inPos' = Len(bytes)
    /\ diag' = (IF Read1(bytes, 1) # Magic1 THEN <<"WarnFirstByte">> ELSE <<>>)
               \o (IF Read1(bytes, 2) # Magic2 THEN <<"WarnSecondByte">> ELSE <<>>)
    /\ pc' = "header"
    /\ UNCHANGED <<mainVars, outVars, hdrVars, segVars, scratch, nRecs, nCompressed>>

\* ------------------------------------------------------ the header of a loop
\* Mutant: running out of input at a header is reported as a failure.
EndOfInput_Error(bytes) ==
    /\ pc = "header"
    /\ UNCHANGED <<highWater, recLimit>>
    /\ bytes = <<>>
    /\ inGood' = FALSE
    /\ consumed' = <<>>
    /\ inPos' = 0
    /\ pc' = "return"
    /\ ret' = FALSE
    /\ diag' = <<>>
    /\ UNCHANGED <<shareFileName, compressedLength, romFile, shareFile, outVars,
                   hdrVars, segVars, scratch, truncated, nRecs, nCompressed>>

\* Mutant: the loop goes on after the read of the header byte failed.
EndOfInput_Continue(bytes) ==
    /\ pc = "header"
    /\ UNCHANGED <<highWater, recLimit>>
    /\ bytes = <<>>
    /\ inGood' = FALSE
    /\ consumed' = <<>>
    /\ inPos' = 0
    /\ pc' = "header"
    /\ diag' = <<>>
    /\ UNCHANGED <<mainVars, outVars, hdrVars, segVars, scratch, truncated,
                   nRecs, nCompressed>>

\* Read1 of the header byte fails: break, return true.
EndOfInput(bytes) ==
    /\ pc = "header"
    /\ UNCHANGED <<highWater, recLimit>>
    /\ bytes = <<>>
    /\ inGood' = FALSE
    /\ consumed' = <<>>
    /\ inPos' = 0
    /\ pc' = "return"
    /\ ret' = TRUE
    /\ diag' = <<>>
    /\ UNCHANGED <<shareFileName, compressedLength, romFile, shareFile, outVars,
                   hdrVars, segVars, scratch, truncated, nRecs, nCompressed>>

\* case 0x00: return true.
EndSegment(bytes) ==
    /\ pc = "header"
    /\ UNCHANGED <<highWater, recLimit>>
    /\ bytes = <<EndHeader>>
    /\ ReadFrom(bytes, 1)
    /\ inPos' = 1
    /\ pc' = "return"
    /\ ret' = TRUE
    /\ diag' = <<>>
    /\ UNCHANGED <<shareFileName, compressedLength, romFile, shareFile, outVars,
                   hdrVars, segVars, scratch, nRecs, nCompressed>>

\* Mutant: an entry point clears lastSegmentCompressed.
EntryPoint_ClearsFlag(bytes) ==
    /\ pc = "header"
    /\ UNCHANGED <<highWater, recLimit>>
    /\ Len(bytes) >= 1
    /\ bytes[1] = EntryHeader
    /\ ReadFrom(bytes, 1 + EntrySkip)
    /\ inPos' = Len(bytes)
    /\ pc' = "header"
    /\ diag' = <<>>
    /\ lastSegmentCompressed' = FALSE
    /\ UNCHANGED <<mainVars, outVars, hdrVars, start, lastStart, length,
                   lastLength, scratch, nRecs, nCompressed>>

\* case 0x80: in.ignore(3); continue.
EntryPoint(bytes) ==
    /\ pc = "header"
    /\ UNCHANGED <<highWater, recLimit>>
    /\ Len(bytes) >= 1
    /\ bytes[1] = EntryHeader
    /\ ReadFrom(bytes, 1 + EntrySkip)
    /\ inPos' = Len(bytes)
    /\ pc' = "header"
    /\ diag' = <<>>
    /\ UNCHANGED <<mainVars, outVars, hdrVars, segVars, scratch, nRecs, nCompressed>>

\* case 0x81 with granularity 1: break out of the switch.
ExtendedHeader(bytes) ==
    /\ pc = "header"
    /\ UNCHANGED <<highWater, recLimit>>
    /\ nRecs < recLimit
    /\ Len(bytes) >= 1
    /\ bytes[1] = ExtHeader
    /\ Read1(bytes, 4) = 1
    /\ ReadFrom(bytes, 4)
    /\ cpuType' = Read1(bytes, 2)
    /\ segmentType' = Read1(bytes, 3)
    /\ granularity' = Read1(bytes, 4)
    /\ inPos' = Len(bytes)
    /\ pc' = "fields"
    /\ diag' = <<>>
    /\ nRecs' = nRecs + 1
    /\ UNCHANGED <<mainVars, outVars, segVars, scratch, nCompressed>>

\* case 0x81 with any other granularity: return false.
UnsupportedGranularity(bytes) ==
    /\ pc = "header"
    /\ UNCHANGED <<highWater, recLimit>>
    /\ Len(bytes) >= 1
    /\ bytes[1] = ExtHeader
    /\ Read1(bytes, 4) # 1
    /\ ReadFrom(bytes, 4)
    /\ cpuType' = Read1(bytes, 2)
    /\ segmentType' = Read1(bytes, 3)
    /\ granularity' = Read1(bytes, 4)
    /\ inPos' = Len(bytes)
    /\ pc' = "return"
    /\ ret' = FALSE
    /\ diag' = <<"UnsupportedGranularity">>
    /\ UNCHANGED <<shareFileName, compressedLength, romFile, shareFile, outVars,
                   segVars, scratch, nRecs, nCompressed>>

\* default, headerByte > 0x81: return false.
UnsupportedSegmentHeader(bytes) ==
    /\ pc = "header"
    /\ UNCHANGED <<highWater, recLimit>>
    /\ Len(bytes) = 1
    /\ bytes[1] > ExtHeader
    /\ ReadFrom(bytes, 1)
    /\ inPos' = 1
    /\ pc' = "return"
    /\ ret' = FALSE
    /\ diag' = <<"UnsupportedSegmentHeader">>
    /\ UNCHANGED <<shareFileName, compressedLength, romFile, shareFile, outVars,
                   hdrVars, segVars, scratch, nRecs, nCompressed>>

\* Mutant: a legacy header leaves cpuType as it was.
LegacyHeader_KeepsCpu(bytes) ==
    /\ pc = "header"
    /\ UNCHANGED <<highWater, recLimit>>
    /\ nRecs < recLimit
    /\ Len(bytes) = 1
    /\ bytes[1] \notin {EndHeader, EntryHeader, ExtHeader}
    /\ ~(bytes[1] > ExtHeader)
    /\ ReadFrom(bytes, 1)
    /\ inPos' = 1
    /\ pc' = "fields"
    /\ diag' = <<>>
    /\ nRecs' = nRecs + 1
    /\ UNCHANGED <<mainVars, outVars, hdrVars, segVars, scratch, nCompressed>>

\* default, otherwise: cpuType = headerByte.
LegacyHeader(bytes) ==
    /\ pc = "header"
    /\ UNCHANGED <<highWater, recLimit>>
    /\ nRecs < recLimit
    /\ Len(bytes) = 1
    /\ bytes[1] \notin {EndHeader, EntryHeader, ExtHeader}
    /\ ~(bytes[1] > ExtHeader)
    /\ ReadFrom(bytes, 1)
    /\ cpuType' = bytes[1]
    /\ inPos' = 1
    /\ pc' = "fields"
    /\ diag' = <<>>
    /\ nRecs' = nRecs + 1
    /\ UNCHANGED <<mainVars, outVars, segmentType, granularity, segVars, scratch,
                   nCompressed>>

\* --------------------------------------------- start and length of a record
\* Mutant: the continuation check tests the 68000 type instead of the Z80 type.
IsFragment_WrongCpu(s) == cpuType = 1 /\ s # 0 /\ lastSegmentCompressed

\* if (cpuType == 0x51 && start != 0 && lastSegmentCompressed)
IsFragment(s) == cpuType = Z80Cpu /\ s # 0 /\ lastSegmentCompressed

\* Mutant: the sign of start is tested before the length.
FieldCheck_NegativeFirst(s, l) ==
    IF s < 0 THEN "NegativeStartAddress"
    ELSE IF l = 0 THEN "ZeroLengthSegment"
    ELSE IF IsFragment(s) THEN "FragmentedCompressedSegment"
    ELSE "ok"

\* Mutant: the sign of start is never tested.
FieldCheck_NoNegative(s, l) ==
    IF l = 0 THEN "ZeroLengthSegment"
    ELSE IF IsFragment(s) THEN "FragmentedCompressedSegment"
    ELSE "ok"

\* The three checks on a decoded record, in the order of the code.
FieldCheck(s, l) ==
    IF l = 0 THEN "ZeroLengthSegment"
    ELSE IF s < 0 THEN "NegativeStartAddress"
    ELSE IF IsFragment(s) THEN "FragmentedCompressedSegment"
    ELSE "ok"

\* start = LittleEndian::Read4(in); length = LittleEndian::Read2(in);
ReadFields(bytes) ==
    /\ pc = "fields"
    /\ UNCHANGED <<highWater, recLimit>>
    /\ ReadFrom(bytes, 6)
    /\ inPos' = inPos + Len(bytes)
    /\ length' = LERead2(bytes, 5)

\* if (length == 0): return false.
ZeroLengthSegment(bytes) ==
    /\ ReadFields(bytes)
    /\ FieldCheck(LERead4(bytes, 1), LERead2(bytes, 5)) = "ZeroLengthSegment"
    /\ start' = LERead4(bytes, 1)
    /\ pc' = "return"
    /\ ret' = FALSE
    /\ diag' = <<"ZeroLengthSegment">>
    /\ UNCHANGED <<shareFileName, compressedLength, romFile, shareFile, outVars,
                   hdrVars, lastStart, lastLength, lastSegmentCompressed,
                   scratch, nRecs, nCompressed>>

\* if (start < 0): start = 0; return false.
NegativeStartAddress(bytes) ==
    /\ ReadFields(bytes)
    /\ FieldCheck(LERead4(bytes, 1), LERead2(bytes, 5)) = "NegativeStartAddress"
    /\ start' = 0
    /\ pc' = "return"
    /\ ret' = FALSE
    /\ diag' = <<"NegativeStartAddress">>
    /\ UNCHANGED <<shareFileName, compressedLength, romFile, shareFile, outVars,
                   hdrVars, lastStart, lastLength, lastSegmentCompressed,
                   scratch, nRecs, nCompressed>>

\* if (cpuType == 0x51 && start != 0 && lastSegmentCompressed):
\* start = 0; return false.
FragmentedCompressedSegment(bytes) ==
    /\ ReadFields(bytes)
    /\ FieldCheck(LERead4(bytes, 1), LERead2(bytes, 5)) = "FragmentedCompressedSegment"
    /\ start' = 0
    /\ pc' = "return"
    /\ ret' = FALSE
    /\ diag' = <<"FragmentedCompressedSegment">>
    /\ UNCHANGED <<shareFileName, compressedLength, romFile, shareFile, outVars,
                   hdrVars, lastStart, lastLength, lastSegmentCompressed,
                   scratch, nRecs, nCompressed>>

\* None of the three checks fires: the record goes on to placement.
AcceptRecord(bytes) ==
    /\ ReadFields(bytes)
    /\ FieldCheck(LERead4(bytes, 1), LERead2(bytes, 5)) = "ok"
    /\ start' = LERead4(bytes, 1)
    /\ pc' = "place"
    /\ diag' = <<>>
    /\ UNCHANGED <<mainVars, outVars, hdrVars, lastStart, lastLength,
                   lastSegmentCompressed, scratch, nRecs, nCompressed>>

\* ---------------------------------------------------------------- placement
\* Mutant: every Z80 record goes through the codec, whatever its start.
IsCompressedRecord_AnyZ80 == cpuType = Z80Cpu

\* if (cpuType == 0x51 && start == 0)
IsCompressedRecord == cpuType = Z80Cpu /\ start = 0

\* buf.resize(length); in.read(&buf[0], length): zero-filled past a short read.
ReadBuf(payload, len) ==
    [i \in 1..len |-> IF i <= Len(payload) THEN payload[i] ELSE 0]

\* Mutant: the codec output is written at lastStart + lastLength.
CompressSegment_AtPlacement(payload) ==
    /\ pc = "place"
    /\ IsCompressedRecord
    /\ ReadFrom(payload, length)
    /\ inPos' = inPos + Len(payload)
    /\ start' = lastStart + lastLength
    /\ LET outbuff == KosEncode(ReadBuf(payload, length))
       IN /\ compressedLength' = Len(outbuff)
          /\ image' = WriteAt(image, start', outbuff)
          /\ outPos' = start' + Len(outbuff)
          /\ highWater' = Max(highWater, start' + Len(outbuff))
    /\ lastSegmentCompressed' = TRUE
    /\ nCompressed' = nCompressed + 1
    /\ pc' = "header"
    /\ diag' = <<>>
    /\ UNCHANGED <<shareFileName, ret, romFile, shareFile, hdrVars, lastStart,
                   length, lastLength, scratch, nRecs, recLimit>>

\* Mutant: the compressed segment is entered in lastStart and lastLength.
CompressSegment_Bookkeeping(payload) ==
    /\ pc = "place"
    /\ IsCompressedRecord
    /\ ReadFrom(payload, length)
    /\ inPos' = inPos + Len(payload)
    /\ LET outbuff == KosEncode(ReadBuf(payload, length))
       IN /\ compressedLength' = Len(outbuff)
          /\ image' = WriteAt(image, outPos, outbuff)
          /\ outPos' = outPos + Len(outbuff)
          /\ highWater' = Max(highWater, outPos + Len(outbuff))
          /\ lastLength' = Len(outbuff)
    /\ start' = lastStart + lastLength
    /\ lastStart' = lastStart + lastLength
    /\ lastSegmentCompressed' = TRUE
    /\ nCompressed' = nCompressed + 1
    /\ pc' = "header"
    /\ diag' = <<>>
    /\ UNCHANGED <<shareFileName, ret, romFile, shareFile, hdrVars,
                   length, scratch, nRecs, recLimit>>

\* Kosinski compressed Z80 segment: the codec output goes to out at its put
\* position; lastStart and lastLength stay.
CompressSegment(payload) ==
    /\ pc = "place"
    /\ IsCompressedRecord
    /\ ReadFrom(payload, length)
    /\ inPos' = inPos + Len(payload)
    /\ LET outbuff == KosEncode(ReadBuf(payload, length))
       IN /\ compressedLength' = Len(outbuff)
          /\ image' = WriteAt(image, outPos, outbuff)
          /\ outPos' = outPos + Len(outbuff)
          /\ highWater' = Max(highWater, outPos + Len(outbuff))
    /\ start' = lastStart + lastLength
    /\ lastSegmentCompressed' = TRUE
    /\ nCompressed' = nCompressed + 1
    /\ pc' = "header"
    /\ diag' = <<>>
    /\ UNCHANGED <<shareFileName, ret, romFile, shareFile, hdrVars, lastStart,
                   length, lastLength, scratch, nRecs, recLimit>>

\* Mutant: the patching leeway is also granted after a compressed segment.
PlacementCheck_Leeway ==
    IF ~lastSegmentCompressed
    THEN (IF start + PatchLeeway < outPos THEN "WarnOverlap" ELSE "ok")
    ELSE (IF start + PatchLeeway < outPos THEN "CompressedSegmentDoesNotFit"
          ELSE "CompressedDriverSize")

\* Mutant: an overlap is fatal whatever the previous segment was.
PlacementCheck_Strict ==
    IF start + PatchLeeway < outPos THEN "CompressedSegmentDoesNotFit"
    ELSE IF ~lastSegmentCompressed THEN "ok"
    ELSE (IF start < outPos THEN "CompressedSegmentDoesNotFit"
          ELSE "CompressedDriverSize")

\* The geometry check of an ordinary segment against out.tellp().
PlacementCheck ==
    IF ~lastSegmentCompressed
    THEN (IF start + PatchLeeway < outPos THEN "WarnOverlap" ELSE "ok")
    ELSE (IF start < outPos THEN "CompressedSegmentDoesNotFit"
          ELSE "CompressedDriverSize")

\* Mutant: no seek, the segment is appended at the put position.
SeekTarget_Append == outPos

\* out.seekp(start, ios::beg)
SeekTarget == start

\* Mutant: only the bytes the read delivered are written.
RECURSIVE CopyLoop_ShortWrite(_, _, _, _, _)
CopyLoop_ShortWrite(len, avail, scr, garbage, acc) ==
    IF len = 0 THEN [written |-> acc, scratch |-> scr]
    ELSE LET copy == IF len > scratchSize THEN scratchSize ELSE len
             got == IF Len(avail) < copy THEN Len(avail) ELSE copy
             scr2 == [i \in DOMAIN scr |-> IF i <= got THEN avail[i] ELSE scr[i]]
             chunk == [i \in 1..got |-> scr2[i]]
         IN CopyLoop_ShortWrite(len - copy, SubSeq(avail, got + 1, Len(avail)),
                                scr2, garbage, acc \o chunk)

\* The copy loop: in.read(scratch, copy); out.write(scratch, copy).
RECURSIVE CopyLoop(_, _, _, _, _)
CopyLoop(len, avail, scr, garbage, acc) ==
    IF len = 0 THEN [written |-> acc, scratch |-> scr]
    ELSE LET copy == IF len > scratchSize THEN scratchSize ELSE len
             got == IF Len(avail) < copy THEN Len(avail) ELSE copy
             scr2 == [i \in DOMAIN scr |-> IF i <= got THEN avail[i] ELSE scr[i]]
             chunk == [i \in 1..copy |->
                          IF scr2[i] = Uninit THEN garbage[i] ELSE scr2[i]]
         IN CopyLoop(len - copy, SubSeq(avail, got + 1, Len(avail)), scr2,
                     garbage, acc \o chunk)

\* garbage gives the bytes read from never-written cells of scratch.
GarbageFor(payload) ==
    {g \in [1..MaxLen -> GarbageBytes] :
        \A i \in 1..MaxLen :
            (i <= Len(payload) \/ i > length \/ scratch[i] # Uninit) => g[i] = 0}

\* Ordinary segment: bookkeeping, seekp(start), copy length bytes.
PlaceOrdinary(payload, garbage) ==
    /\ pc = "place"
    /\ ~IsCompressedRecord
    /\ PlacementCheck # "CompressedSegmentDoesNotFit"
    /\ ReadFrom(payload, length)
    /\ inPos' = inPos + Len(payload)
    /\ garbage \in GarbageFor(payload)
    /\ diag' = IF PlacementCheck = "ok" THEN <<>> ELSE <<PlacementCheck>>
    /\ lastStart' = start
    /\ lastLength' = length
    /\ lastSegmentCompressed' = FALSE
    /\ LET c == CopyLoop(length, payload, scratch, garbage, <<>>)
       IN /\ image' = WriteAt(image, SeekTarget, c.written)
          /\ outPos' = SeekTarget + Len(c.written)
          /\ scratch' = c.scratch
          /\ highWater' = Max(highWater, SeekTarget + Len(c.written))
    /\ length' = 0
    /\ pc' = "header"
    /\ UNCHANGED <<mainVars, hdrVars, start, nRecs, nCompressed, recLimit>>

\* After a compressed segment, start < out.tellp(): return false.
CompressedSegmentDoesNotFit ==
    /\ pc = "place"
    /\ UNCHANGED <<highWater, recLimit>>
    /\ ~IsCompressedRecord
    /\ PlacementCheck = "CompressedSegmentDoesNotFit"
    /\ pc' = "return"
    /\ ret' = FALSE
    /\ diag' = <<"CompressedSegmentDoesNotFit">>
    /\ UNCHANGED <<shareFileName, compressedLength, romFile, shareFile, inGood,
                   inPos, outVars, hdrVars, segVars, scratch, consumed, truncated,
                   nRecs, nCompressed>>

\* ---------------------------------------------------------------- main, end
\* Mutant: the size line is written whatever compressedLength is.
editShareFile_Always(shareGiven, fshareGood) ==
    IF shareGiven /\ fshareGood
    THEN shareFile' = Append(shareFile, ShareLine(compressedLength))
    ELSE shareFile' = shareFile

\* editShareFile(shareFileName, compressedLength); the third argument of the
\* command line is drawn here, where main first uses it.
editShareFile(shareGiven, fshareGood) ==
    IF shareGiven /\ compressedLength > 0 /\ fshareGood
    THEN shareFile' = Append(shareFile, ShareLine(compressedLength))
    ELSE shareFile' = shareFile

\* buildRom returned true.
MainDone(shareGiven, fshareGood) ==
    /\ pc = "return"
    /\ UNCHANGED <<highWater, recLimit>>
    /\ ret
    /\ shareFileName' = shareGiven
    /\ editShareFile(shareGiven, fshareGood)
    /\ pc' = "exit"
    /\ UNCHANGED <<compressedLength, ret, romFile, inGood, inPos, outVars, hdrVars,
                   segVars, scratch, diag, consumed, truncated, nRecs, nCompressed>>

\* Mutant: the ROM is left in place after a failure.
MainUnlink_Keep ==
    /\ pc = "return"
    /\ UNCHANGED <<highWater, recLimit>>
    /\ ~ret
    /\ romFile' = romFile
    /\ pc' = "exit"
    /\ UNCHANGED <<shareFileName, compressedLength, ret, shareFile, inGood, inPos,
                   outVars, hdrVars, segVars, scratch, diag, consumed, truncated,
                   nRecs, nCompressed>>

\* buildRom returned false: unlink(romFileName).
MainUnlink ==
    /\ pc = "return"
    /\ UNCHANGED <<highWater, recLimit>>
    /\ ~ret
    /\ romFile' = FALSE
    /\ pc' = "exit"
    /\ UNCHANGED <<shareFileName, compressedLength, ret, shareFile, inGood, inPos,
                   outVars, hdrVars, segVars, scratch, diag, consumed, truncated,
                   nRecs, nCompressed>>

\* --------------------------------------------------------------------- Next
Next ==
    \/ MainOpen
    \/ \E finGood \in BOOLEAN : MainOpenFail(finGood)
    \/ \E bytes \in MagicInputs : ReadMagic(bytes)
    \/ \E bytes \in HeaderInputs : EndOfInput(bytes)
    \/ \E bytes \in HeaderInputs : EndSegment(bytes)
    \/ \E bytes \in HeaderInputs : EntryPoint(bytes)
    \/ \E bytes \in HeaderInputs : ExtendedHeader(bytes)
    \/ \E bytes \in HeaderInputs : UnsupportedGranularity(bytes)
    \/ \E bytes \in HeaderInputs : UnsupportedSegmentHeader(bytes)
    \/ \E bytes \in HeaderInputs : LegacyHeader(bytes)
    \/ \E bytes \in FieldInputs : ZeroLengthSegment(bytes)
    \/ \E bytes \in FieldInputs : NegativeStartAddress(bytes)
    \/ \E bytes \in FieldInputs : FragmentedCompressedSegment(bytes)
    \/ \E bytes \in FieldInputs : AcceptRecord(bytes)
    \/ \E payload \in Payloads(MaxLen) : CompressSegment(payload)
    \/ \E payload \in Payloads(MaxLen) :
          \E garbage \in [1..MaxLen -> GarbageBytes] : PlaceOrdinary(payload, garbage)
    \/ CompressedSegmentDoesNotFit
    \/ \E shareGiven \in BOOLEAN, fshareGood \in BOOLEAN : MainDone(shareGiven, fshareGood)
    \/ MainUnlink

Spec == Init /\ [][Next]_vars

\* The same program on files of one more segment.
InitDeep == InitWith(MaxRecs + 1)
SpecDeep == InitDeep /\ [][Next]_vars

\* ------------------------------------------------------------- finite files
\* case 0x80 on a finite file: the entry point is one of the at most recLimit
\* records the file holds.
EntryPointFinite(bytes) ==
    /\ pc = "header"
    /\ nRecs < recLimit
    /\ Len(bytes) >= 1
    /\ bytes[1] = EntryHeader
    /\ ReadFrom(bytes, 1 + EntrySkip)
    /\ inPos' = Len(bytes)
    /\ pc' = "header"
    /\ diag' = <<>>
    /\ nRecs' = nRecs + 1
    /\ UNCHANGED <<mainVars, outVars, hdrVars, segVars, scratch, nCompressed,
                   highWater, recLimit>>

NextFinite ==
    \/ MainOpen
    \/ \E finGood \in BOOLEAN : MainOpenFail(finGood)
    \/ \E bytes \in MagicInputs : ReadMagic(bytes)
    \/ \E bytes \in HeaderInputs : EndOfInput(bytes)
    \/ \E bytes \in HeaderInputs : EndSegment(bytes)
    \/ \E bytes \in HeaderInputs : EntryPointFinite(bytes)
    \/ \E bytes \in HeaderInputs : ExtendedHeader(bytes)
    \/ \E bytes \in HeaderInputs : UnsupportedGranularity(bytes)
    \/ \E bytes \in HeaderInputs : UnsupportedSegmentHeader(bytes)
    \/ \E bytes \in HeaderInputs : LegacyHeader(bytes)
    \/ \E bytes \in FieldInputs : ZeroLengthSegment(bytes)
    \/ \E bytes \in FieldInputs : NegativeStartAddress(bytes)
    \/ \E bytes \in FieldInputs : FragmentedCompressedSegment(bytes)
    \/ \E bytes \in FieldInputs : AcceptRecord(bytes)
    \/ \E payload \in Payloads(MaxLen) : CompressSegment(payload)
    \/ \E payload \in Payloads(MaxLen) :
          \E garbage \in [1..MaxLen -> GarbageBytes] : PlaceOrdinary(payload, garbage)
    \/ CompressedSegmentDoesNotFit
    \/ \E shareGiven \in BOOLEAN, fshareGood \in BOOLEAN : MainDone(shareGiven, fshareGood)
    \/ MainUnlink

\* The program on a file of at most recLimit records of any kind; it is
\* sequential, so a step that can be taken is taken.
FairSpec == Init /\ [][NextFinite]_vars /\ WF_vars(NextFinite)

\* ================================================================ properties
\* The start and length fields of the record the last step decoded.
FieldStart == LERead4(consumed, 1)
FieldLength == LERead2(consumed, 5)

FatalDiags ==
    {<<"UnsupportedGranularity">>, <<"UnsupportedSegmentHeader">>,
     <<"ZeroLengthSegment">>, <<"NegativeStartAddress">>,
     <<"FragmentedCompressedSegment">>, <<"CompressedSegmentDoesNotFit">>}

\* The image after writing bytes at offset pos, spelled out byte by byte.
Placed(old, new, pos, bytes) ==
    /\ Len(new) = Max(Len(old), pos + Len(bytes))
    /\ \A i \in 1..Len(new) :
          new[i] = IF i > pos /\ i <= pos + Len(bytes) THEN bytes[i - pos]
                   ELSE IF i <= Len(old) THEN old[i]
                   ELSE 0

\* C1: whenever buildRom returns success, compressedLength is nonzero if and
\* only if exactly one record with cpuType 0x51 and start 0 was in the stream
\* (stated here for the streams that do not end inside a record).
C1_NonzeroIffExactlyOne ==
    (pc = "return" /\ ret /\ ~truncated)
        => ((compressedLength # 0) <=> (nCompressed = 1))

\* C2: the cursor left by the compressed append stays put until the next
\* record is placed; an ordinary record that follows is checked against it:
\* start < cursor fails with CompressedSegmentDoesNotFit and writes nothing,
\* start >= cursor places the record and the run continues.
C2_FitCheckAfterCompressed ==
    [][ /\ (pc = "place" /\ IsCompressedRecord)
            => (lastSegmentCompressed' /\ outPos' = outPos + compressedLength')
        /\ (lastSegmentCompressed /\ pc \in {"header", "fields"})
            => (outPos' = outPos /\ image' = image
                /\ (pc' # "return" => lastSegmentCompressed'))
        /\ (pc = "place" /\ lastSegmentCompressed /\ ~IsCompressedRecord)
            => IF start < outPos
               THEN /\ pc' = "return" /\ ~ret'
                    /\ diag' = <<"CompressedSegmentDoesNotFit">>
                    /\ image' = image /\ outPos' = outPos
               ELSE /\ pc' = "header" /\ ret' = ret
                    /\ lastStart' = start
                    /\ outPos' = start + length
                    /\ inGood' => Placed(image, image', start, consumed')
      ]_vars

C2_Witness ==
    /\ pc = "return"
    /\ diag = <<"CompressedSegmentDoesNotFit">>
    /\ lastSegmentCompressed
    /\ start < outPos
    /\ start + PatchLeeway >= outPos

\* C3 as stated: a 0x51 record with nonzero start decoded after a compressed
\* segment always fails with FragmentedCompressedSegment.
C3_AlwaysFragmented ==
    [][ (pc = "fields" /\ cpuType = Z80Cpu /\ lastSegmentCompressed
         /\ Len(consumed') = 6 /\ LERead4(consumed', 1) # 0)
        => (pc' = "return" /\ ~ret' /\ image' = image
            /\ diag' = <<"FragmentedCompressedSegment">>)
      ]_vars

\* C3 amended: a 0x51 record with nonzero length and positive start decoded
\* after a compressed segment always fails with FragmentedCompressedSegment,
\* and nothing of it is written.
C3_FragmentedWhenValid ==
    [][ (pc = "fields" /\ cpuType = Z80Cpu /\ lastSegmentCompressed
         /\ LERead2(consumed', 5) # 0 /\ LERead4(consumed', 1) > 0)
        => (pc' = "return" /\ ~ret' /\ image' = image /\ outPos' = outPos
            /\ diag' = <<"FragmentedCompressedSegment">>)
      ]_vars

C3_Witness ==
    /\ pc = "return"
    /\ diag = <<"FragmentedCompressedSegment">>
    /\ cpuType = Z80Cpu
    /\ lastSegmentCompressed
    /\ FieldStart > 0
    /\ image # <<>>

\* C4: a record whose length field is 0 fails with ZeroLengthSegment, whatever
\* its cpuType, its start (negative too) and the placement state.
C4_ZeroLengthAlwaysFatal ==
    [][ (pc = "fields" /\ LERead2(consumed', 5) = 0)
        => (pc' = "return" /\ ~ret' /\ image' = image
            /\ diag' = <<"ZeroLengthSegment">>)
      ]_vars

C4_Witness ==
    /\ pc = "return"
    /\ diag = <<"ZeroLengthSegment">>
    /\ cpuType = Z80Cpu
    /\ lastSegmentCompressed
    /\ FieldStart < 0
    /\ FieldLength = 0

\* C5 as stated: every record whose start field is negative fails with
\* NegativeStartAddress.
C5_NegativeAlwaysReported ==
    [][ (pc = "fields" /\ Len(consumed') = 6 /\ LERead4(consumed', 1) < 0)
        => (pc' = "return" /\ ~ret' /\ diag' = <<"NegativeStartAddress">>)
      ]_vars

\* C5 amended: every record with a nonzero length field whose start field is
\* negative fails with NegativeStartAddress; no record with a negative start
\* reaches placement.
C5_NegativeReportedWhenLengthNonzero ==
    [][ /\ (pc = "fields" /\ LERead2(consumed', 5) # 0 /\ LERead4(consumed', 1) < 0)
            => (pc' = "return" /\ ~ret' /\ image' = image
                /\ diag' = <<"NegativeStartAddress">>)
        /\ (pc = "fields" /\ LERead4(consumed', 1) < 0) => pc' = "return"
        /\ pc' = "place" => start' >= 0
      ]_vars

C5_Witness ==
    /\ pc = "return"
    /\ diag = <<"NegativeStartAddress">>
    /\ Len(consumed) = 6
    /\ FieldStart < 0
    /\ FieldLength > 0

\* C6: placing an ordinary record writes its length payload bytes at offsets
\* start .. start+length-1, leaves the cursor at start+length and changes no
\* other byte, whatever the cursor and placement state were.
C6_OrdinaryPlacement ==
    [][ (pc = "place" /\ ~IsCompressedRecord /\ pc' = "header" /\ inGood')
        => /\ Len(consumed') = length
           /\ outPos' = start + length
           /\ Placed(image, image', start, consumed')
      ]_vars

C6_Witness ==
    /\ pc = "header"
    /\ inGood
    /\ Len(consumed) = lastLength
    /\ outPos = lastStart + lastLength
    /\ outPos < Len(image)
    /\ SubSeq(image, lastStart + 1, outPos) = consumed
    /\ lastStart > 0 /\ image[lastStart] = 0

\* C7: after complete, valid records, running out of input and reading the
\* terminator 0x00 both make buildRom succeed with the image and
\* compressedLength as they stand, which main then leaves as they are.
C7_ImplicitEndEqualsTerminator ==
    [][ /\ (pc = "header" /\ inGood /\ consumed' \in {<<>>, <<EndHeader>>})
            => (pc' = "return" /\ ret' /\ image' = image /\ romFile'
                /\ compressedLength' = compressedLength)
        /\ (pc = "return" /\ ret)
            => (image' = image /\ romFile'
                /\ compressedLength' = compressedLength)
      ]_vars

C7_Witness ==
    /\ pc = "return"
    /\ ret
    /\ ~truncated
    /\ consumed = <<>>
    /\ nRecs >= 1
    /\ image # <<>>

\* C8: a fatal error makes buildRom return false at once; nothing is decoded
\* or written afterwards and main removes the ROM; a ROM is left at exit only
\* when buildRom returned true.
C8_AllOrNothing ==
    [][ /\ diag' \in FatalDiags => (pc' \in {"return", "exit"} /\ ~ret')
        /\ (pc' = "return" /\ ~ret') => diag' \in FatalDiags
        /\ (pc = "return" /\ ~ret)
            => (pc' = "exit" /\ ~romFile' /\ image' = image /\ outPos' = outPos
                /\ consumed' = consumed /\ inPos' = inPos)
        /\ (pc' = "exit" /\ romFile') => ret'
      ]_vars

C8_Witness ==
    /\ pc = "exit"
    /\ ~ret
    /\ ~romFile
    /\ diag \in FatalDiags
    /\ image # <<>>

\* C9: the share file gets its line only after buildRom succeeded with
\* compressedLength > 0; a failed run and a run without a compressed segment
\* append nothing.
C9_ShareLineOnlyOnSuccess ==
    /\ shareFile # <<>>
        => (pc = "exit" /\ ret /\ compressedLength > 0 /\ shareFileName
            /\ shareFile = <<ShareLine(compressedLength)>>)
    /\ (pc = "exit" /\ ret /\ compressedLength = 0) => shareFile = <<>>
    /\ (pc = "exit" /\ ~ret) => shareFile = <<>>

C9_Witness ==
    /\ pc = "exit"
    /\ ~ret
    /\ compressedLength > 0
    /\ diag = <<"CompressedSegmentDoesNotFit">>
    /\ shareFile = <<>>

\* C10: when the previous segment was not compressed, an ordinary record with
\* start + 3 below the cursor only draws the overlap warning: it is placed at
\* start, the bookkeeping is updated and the run goes on.
C10_OverlapIsWarningOnly ==
    [][ (pc = "place" /\ ~lastSegmentCompressed /\ ~IsCompressedRecord
         /\ start + PatchLeeway < outPos)
        => /\ pc' = "header" /\ ret' = ret
           /\ diag' = <<"WarnOverlap">>
           /\ lastStart' = start /\ lastLength' = length
           /\ ~lastSegmentCompressed'
           /\ outPos' = start + length
           /\ inGood' => Placed(image, image', start, consumed')
      ]_vars

C10_Witness ==
    /\ pc = "header"
    /\ diag = <<"WarnOverlap">>
    /\ ~lastSegmentCompressed
    /\ lastStart + PatchLeeway < Len(image)
    /\ inGood
    /\ SubSeq(image, lastStart + 1, lastStart + lastLength) = consumed

C12_HeaderClassification ==
    [][(pc = "header" /\ consumed' # <<>>) =>
         LET h == consumed'[1] IN
           /\ h = EndHeader =>
                 pc' = "return" /\ ret' /\ diag' = <<>> /\ Len(consumed') = 1
           /\ h = EntryHeader => pc' = "header" /\ UNCHANGED cpuType
           /\ (h = ExtHeader /\ Len(consumed') = 4) =>
                 /\ cpuType' = consumed'[2]
                 /\ segmentType' = consumed'[3]
                 /\ granularity' = consumed'[4]
                 /\ granularity' = 1 => pc' = "fields"
                 /\ granularity' # 1 =>
                       pc' = "return" /\ ~ret'
                       /\ diag' = <<"UnsupportedGranularity">>
           /\ h > ExtHeader =>
                 pc' = "return" /\ ~ret'
                 /\ diag' = <<"UnsupportedSegmentHeader">>
           /\ h \in 1..(EntryHeader - 1) =>
                 /\ pc' = "fields"
                 /\ cpuType' = h
                 /\ Len(consumed') = 1
                 /\ inPos' = 1
                 /\ UNCHANGED <<segmentType, granularity>>
           /\ pc' = "fields" =>
                 /\ diag' = <<>>
                 /\ UNCHANGED <<outVars, segVars, compressedLength, scratch>>
      ]_vars

\* A legacy 0x51 header has just been decoded in a run whose first record had
\* an extended header with cpuType 0x51 and went through the codec.
C12_Witness ==
    /\ pc = "fields"
    /\ consumed = <<Z80Cpu>>
    /\ cpuType = Z80Cpu
    /\ granularity = 1
    /\ nRecs = 2
    /\ nCompressed = 1
    /\ lastSegmentCompressed

\* ---------------------------------------------------------------------- C13
\* C13: a mismatch in either magic byte never changes the outcome. Whatever
\* the two bytes are, the step that reads them consumes exactly those two,
\* goes on to the first header and leaves the return value, the image, the
\* put position, compressedLength and every decoder and placement variable
\* as they were; the bytes decide only which warnings are printed. The state
\* handed to the loop is therefore the one a file with 0x89 0x14 hands over,
\* and diag and consumed, the two variables that differ, are written by every
\* later step before they are read.
C13_MagicMismatchChangesNothing ==
    [][(pc = "magic" /\ Len(consumed') = 2) =>
         /\ pc' = "header"
         /\ inPos' = 2
         /\ inGood'
         /\ UNCHANGED truncated
         /\ UNCHANGED <<mainVars, outVars, hdrVars, segVars, scratch,
                        nRecs, nCompressed, highWater>>
         /\ diag' \in {<<>>, <<"WarnFirstByte">>, <<"WarnSecondByte">>,
                        <<"WarnFirstByte", "WarnSecondByte">>}
         /\ diag' = <<>> <=> consumed' = <<Magic1, Magic2>>
      ]_vars

\* Both magic bytes were wrong and the loop is about to read its first header.
C13_Witness ==
    /\ pc = "header"
    /\ consumed = <<0, 0>>
    /\ diag = <<"WarnFirstByte", "WarnSecondByte">>
    /\ inGood
    /\ inPos = 2
    /\ romFile
    /\ image = <<>>
    /\ nRecs = 0

\* ---------------------------------------------------------------------- C14
\* C14: processing a compressed driver record (cpuType 0x51, start 0) leaves
\* lastStart and lastLength as they were and sets lastSegmentCompressed;
\* of the output only the put position, the image bytes of the appended
\* range and compressedLength change: the put position advances by
\* compressedLength, and every image byte outside the appended range is the
\* byte that was there before.
C14_CompressedFrame ==
    [][(pc = "place" /\ cpuType = Z80Cpu /\ start = 0) =>
         /\ pc' = "header"
         /\ UNCHANGED <<lastStart, lastLength>>
         /\ lastSegmentCompressed'
         /\ outPos' = outPos + compressedLength'
         /\ Len(image') = Max(Len(image), outPos')
         /\ \A i \in 1..Len(image') :
                (i <= outPos \/ i > outPos') =>
                    (i <= Len(image) /\ image'[i] = image[i])
         /\ UNCHANGED <<shareFileName, ret, romFile, shareFile, hdrVars,
                        length, scratch>>
      ]_vars

\* A compressed record was taken after an ordinary segment at a nonzero
\* address: lastStart and lastLength are still those of the ordinary one.
C14_Witness ==
    /\ pc = "header"
    /\ lastSegmentCompressed
    /\ nCompressed = 1
    /\ nRecs = 2
    /\ lastStart > 0
    /\ lastLength > 0
    /\ compressedLength > 0
    /\ outPos = lastStart + lastLength + compressedLength
    /\ inGood

\* ---------------------------------------------------------------------- C15
\* C15: for a compressed record whose payload is all in the file, exactly
\* length input bytes are consumed as payload; the codec output of those
\* bytes is written at the put position as it was before the record, never
\* at the record's start address and never at lastStart + lastLength when
\* that differs from the put position; the put position advances by exactly
\* the compressed size and compressedLength is set to that size.
C15_CompressedAppend ==
    [][(pc = "place" /\ cpuType = Z80Cpu /\ start = 0 /\ inGood') =>
         /\ Len(consumed') = length
         /\ inPos' = inPos + length
         /\ LET outbuff == KosEncode(consumed')
            IN /\ Placed(image, image', outPos, outbuff)
               /\ outPos' = outPos + Len(outbuff)
               /\ compressedLength' = Len(outbuff)
      ]_vars

\* A second compressed record was appended behind the first: the put
\* position it was written at is neither its start address 0 nor
\* lastStart + lastLength.
C15_Witness ==
    /\ pc = "header"
    /\ nCompressed = 2
    /\ inGood
    /\ lastSegmentCompressed
    /\ outPos - compressedLength > lastStart + lastLength
    /\ Len(consumed) = length
    /\ SubSeq(image, outPos - compressedLength + 1, outPos) = KosEncode(consumed)

\* ---------------------------------------------------------------------- C16
\* C16: a record's payload passes through the codec if and only if its
\* cpuType is 0x51 and its start is 0. A record with any other cpuType, and
\* an accepted 0x51 record with a nonzero start (which reaches placement only
\* when the previous segment was not compressed), is copied verbatim to its
\* start address and leaves compressedLength alone.
C16_CodecIffZ80AtZero ==
    [][pc = "place" =>
         /\ (cpuType = Z80Cpu /\ start # 0) => ~lastSegmentCompressed
         /\ (pc' = "header" /\ inGood') =>
               IF cpuType = Z80Cpu /\ start = 0
               THEN /\ nCompressed' = nCompressed + 1
                    /\ Placed(image, image', outPos, KosEncode(consumed'))
               ELSE /\ nCompressed' = nCompressed
                    /\ compressedLength' = compressedLength
                    /\ Placed(image, image', start, consumed')
      ]_vars

\* A 0x51 record with a nonzero start was copied verbatim to its address.
C16_Witness ==
    /\ pc = "header"
    /\ cpuType = Z80Cpu
    /\ lastStart > 0
    /\ lastLength > 0
    /\ ~lastSegmentCompressed
    /\ nCompressed = 0
    /\ compressedLength = 0
    /\ inGood
    /\ SubSeq(image, lastStart + 1, lastStart + lastLength) = consumed

\* ---------------------------------------------------------------------- C17
\* C17: whenever an ordinary record's start lies more than 3 bytes below the
\* end of any region already written (highWater is the largest such end), its
\* placement reports an overlap warning or fails with
\* CompressedSegmentDoesNotFit; no such record is written silently. Stated
\* for files that hold every byte their records announce.
C17_NoSilentOverlap ==
    [][(/\ pc = "place"
        /\ ~(cpuType = Z80Cpu /\ start = 0)
        /\ start + PatchLeeway < highWater
        /\ inGood') =>
         diag' \in {<<"WarnOverlap">>, <<"CompressedSegmentDoesNotFit">>}
      ]_vars

\* ---------------------------------------------------------------------- C18
\* C18: an entry-point record (header 0x80) that is all in the file consumes
\* exactly 3 bytes after the header byte and changes nothing else: lastStart,
\* lastLength, lastSegmentCompressed, the put position, compressedLength and
\* the image are as before, and so are cpuType, start, length and the
\* scratch buffer. The loop then reads the next header, so that the checks
\* that depend on lastSegmentCompressed meet the next real record unchanged.
C18_EntryPointFrame ==
    [][(/\ pc = "header"
        /\ consumed' # <<>>
        /\ consumed'[1] = EntryHeader
        /\ inGood') =>
         /\ Len(consumed') = 1 + EntrySkip
         /\ inPos' = 1 + EntrySkip
         /\ pc' = "header"
         /\ UNCHANGED <<lastStart, lastLength, lastSegmentCompressed, outPos,
                        compressedLength, image>>
         /\ UNCHANGED <<hdrVars, start, length, scratch, ret, romFile, shareFile,
                        nRecs, nCompressed>>
      ]_vars

\* An entry point was skipped right after a compressed segment, whose flag,
\* put position and size are still in place.
C18_Witness ==
    /\ pc = "header"
    /\ consumed = <<EntryHeader, 0, 0, 0>>
    /\ inGood
    /\ inPos = 1 + EntrySkip
    /\ lastSegmentCompressed
    /\ compressedLength > 0
    /\ outPos = lastStart + lastLength + compressedLength
    /\ Len(image) = outPos

\* ---------------------------------------------------------------------- C19
\* C19: at the start of every decoding step, and until the record of that
\* step is placed, if lastSegmentCompressed is false then the put position
\* equals lastStart + lastLength (both 0 before the first record); so a
\* compressed record that follows an ordinary one is appended at
\* lastStart + lastLength.
C19_CursorIsEndOfLast ==
    (pc \in {"header", "fields", "place"} /\ ~lastSegmentCompressed) =>
        outPos = lastStart + lastLength

\* A compressed record is about to be appended behind an ordinary segment
\* that was placed at a nonzero address.
C19_Witness ==
    /\ pc = "place"
    /\ cpuType = Z80Cpu
    /\ start = 0
    /\ ~lastSegmentCompressed
    /\ lastStart > 0
    /\ lastLength > 0
    /\ outPos = lastStart + lastLength
    /\ outPos = Len(image)

\* ---------------------------------------------------------------------- C20
\* C20: buildRom terminates on every finite file. Every step from a header
\* position consumes at least the header byte or ends the run; once the magic
\* is about to be read the run reaches the return of buildRom; it returns
\* true only from a header position, on the terminator byte or on the end of
\* the file there, and false only with one of the fatal messages; a file
\* that ends inside a header, the fields or a payload ends the run as well.
C20_Terminates ==
    /\ [][pc = "header" => (pc' = "return" \/ Len(consumed') >= 1)]_vars
    /\ (pc = "magic") ~> (pc = "return")
    /\ [](pc = "return" =>
            /\ ret => (diag = <<>> /\ consumed \in {<<>>, <<EndHeader>>})
            /\ ~ret => diag \in FatalDiags)

\* A file that ended inside the payload of its second record: the payload
\* was placed, the next header read found the end, buildRom returned true.
C20_Witness ==
    /\ pc = "return"
    /\ ret
    /\ truncated
    /\ ~inGood
    /\ consumed = <<>>
    /\ nRecs = 2
    /\ Len(image) > 0

====
